---------------------------- MODULE Spec2Model ----------------------------
(***************************************************************************)
(* A model of randorgpy's RandomOrgAPI client: the constructor, the eight  *)
(* wrappers and send_request (src/randord.py, src/randorgpy/main.py,       *)
(* src/src/basic_api.py).                                                  *)
(*                                                                         *)
(* Python values are encoded uniformly:                                    *)
(*   - a wrapper argument is the text of its Python literal ("5", "True"); *)
(*   - an omitted optional argument is the empty set, a given one {v};     *)
(*   - a dict of arguments is a set of <<key, value>> pairs;               *)
(*   - a decoded JSON document is the set of its <<path, leaf>> pairs,     *)
(*     path a sequence of keys, leaf a scalar, a list or the empty object; *)
(*     JSON null decodes to Python's None, so None is the null document.   *)
(***************************************************************************)
EXTENDS Integers, Sequences, FiniteSets, TLC

VARIABLES
    ctor,       \* the arguments the client was constructed with
    cfg,        \* the client object's attributes (self.*)
    pc,         \* per thread: where its call stands
    call,       \* per thread: the function the caller invoked and its arguments
    method,     \* per thread: send_request's argument `method`
    params,     \* per thread: send_request's argument `params`
    payload,    \* per thread: send_request's local `payload`
    sent,       \* per thread: what requests.post was called with
    posts,      \* per thread: requests.post calls made by the current call
    answer,     \* per thread: what the HTTP exchange produced for its POST
    response,   \* per thread: send_request's local `response`
    ret,        \* per thread: how the call ended (value returned or exception)
    ncalls      \* calls started so far on this client

vars == <<ctor, cfg, pc, call, method, params, payload, sent, posts, answer,
          response, ret, ncalls>>

\* Calls made on one client in a behaviour.
MaxCalls == 2

\* Callers that may be inside the client at the same time.
Threads == {"t1", "t2"}

---------------------------------------------------------------------------
(* Optional arguments and dicts *)

Omitted == {}

Given(v) == {v}

\* The value of a keyword argument with a default.
Default(opt, d) == IF opt = Omitted THEN d ELSE CHOOSE v \in opt : TRUE

DEFAULT_END_POINT == "https://api.random.org/json-rpc/4/invoke"
DEFAULT_TIMEOUT == 10
DEFAULT_RETURN_METADATA == FALSE
DEFAULT_ID == 42

\* RandomOrgAPI.__init__: five plain attribute assignments.
RandomOrgAPI(api_key, end_point, timeout, return_metadata, id) ==
    [api_key         |-> api_key,
     end_point       |-> Default(end_point, DEFAULT_END_POINT),
     timeout         |-> Default(timeout, DEFAULT_TIMEOUT),
     return_metadata |-> Default(return_metadata, DEFAULT_RETURN_METADATA),
     id              |-> Default(id, DEFAULT_ID)]

---------------------------------------------------------------------------
(* Decoded JSON documents *)

Leaf(t, items) == [t |-> t, items |-> items]

JNull == {<<<<>>, Leaf("null", <<>>)>>}
JEmptyObj == {<<<<>>, Leaf("object", <<>>)>>}
JArr(s) == {<<<<>>, Leaf("array", s)>>}
JNum(n) == {<<<<>>, Leaf("number", <<n>>)>>}
\* The object {k: v}; an object of several keys is the union of these.
JField(k, v) == {<<(<<k>> \o e[1]), e[2]>> : e \in v}

\* Python's None; json null decodes to it.
PyNone == JNull

\* isinstance(v, dict)
IsDict(v) == v = JEmptyObj \/ (v # {} /\ \A e \in v : e[1] # <<>>)

Keys(v) == IF v = JEmptyObj THEN {} ELSE {Head(e[1]) : e \in v}

Item(v, k) ==
    LET under == {e \in v : e[1] # <<>> /\ Head(e[1]) = k}
        inner == {<<Tail(e[1]), e[2]>> : e \in under}
    IN  inner

\* The outcome of evaluating a Python expression: a value or a raised exception.
Returned(v) == [kind |-> "return", val |-> v, exc |-> ""]
Raised(e) == [kind |-> "raise", val |-> {}, exc |-> e]
NoRet == [kind |-> "pending", val |-> {}, exc |-> ""]

\* v[k] for a str k: KeyError on a dict without k, TypeError on a list, a
\* number or None; an exception raised while evaluating v propagates.
getitem(r, k) ==
    IF r.kind # "return" THEN r
    ELSE IF ~IsDict(r.val) THEN Raised("TypeError")
    ELSE IF k \notin Keys(r.val) THEN Raised("KeyError")
    ELSE Returned(Item(r.val, k))

---------------------------------------------------------------------------
(* The HTTP exchange *)

\* An HTTP response: whether its body decodes as JSON, and the document.
Body(doc) == [decodes |-> TRUE, doc |-> doc]
NotJson == [decodes |-> FALSE, doc |-> {}]

\* {"result": {"random": {"data": [3, 7], "completionTime": 1}}, "id": 42}
GoodRandom ==
    Body(JField("result",
               JField("random", JField("data", JArr(<<3, 7>>))
                                \cup JField("completionTime", JNum(1))))
         \cup JField("id", JNum(42)))
\* {"result": {"requestsLeft": 99}, "id": 42}
GoodUsage == Body(JField("result", JField("requestsLeft", JNum(99)))
                  \cup JField("id", JNum(42)))
\* {"error": {"code": 402}, "id": 42}
RemoteError == Body(JField("error", JField("code", JNum(402)))
                    \cup JField("id", JNum(42)))
\* {"result": {"random": {}}}
NoData == Body(JField("result", JField("random", JEmptyObj)))
\* {}
EmptyEnvelope == Body(JEmptyObj)
\* null
NullBody == Body(JNull)

Bodies == {GoodRandom, GoodUsage, RemoteError, NoData, EmptyEnvelope,
           NullBody, NotJson}

\* Exceptions requests.post may raise, each with its base classes.
Bases(e) ==
    CASE e = "ReadTimeout"     -> {"ReadTimeout", "Timeout", "RequestException", "Exception"}
      [] e = "ConnectionError" -> {"ConnectionError", "RequestException", "Exception"}
      [] e = "TypeError"       -> {"TypeError", "Exception"}
      [] OTHER                 -> {e}

PostExceptions == {"ReadTimeout", "ConnectionError", "TypeError"}

IsInstance(e, cls) == cls \in Bases(e)

\* response.json()
json(resp) == IF resp.decodes THEN Returned(resp.doc) ELSE Raised("JSONDecodeError")

NoPayload == [jsonrpc |-> "", method |-> "", params |-> {}, id |-> 0]
NoSent == [made |-> FALSE, url |-> "", json |-> NoPayload, timeout |-> 0]
NoAnswer == [kind |-> "none", exc |-> "", body |-> NotJson]
NoResponse == [bound |-> FALSE, body |-> NotJson]
NoCall == [fn |-> "", args |-> {}]

---------------------------------------------------------------------------
(* send_request *)

\* A variant that numbers the requests instead of reusing self.id.
Payload_Counting(self, m, p) ==
    [jsonrpc |-> "2.0", method |-> m, params |-> p, id |-> self.id + ncalls]

\* The request envelope.
Payload(self, m, p) ==
    [jsonrpc |-> "2.0", method |-> m, params |-> p, id |-> self.id]

\* A variant without the final `except Exception` clause.
Handler_NoCatchAll(e) ==
    IF IsInstance(e, "Timeout") THEN Returned(PyNone)
    ELSE IF IsInstance(e, "RequestException") THEN Returned(PyNone)
    ELSE Raised(e)

\* The except clauses around requests.post, in order.
Handler(e) ==
    IF IsInstance(e, "Timeout") THEN Returned(PyNone)
    ELSE IF IsInstance(e, "RequestException") THEN Returned(PyNone)
    ELSE IF IsInstance(e, "Exception") THEN Returned(PyNone)
    ELSE Raised(e)

\* A variant that unwraps result.random.data for every method.
Unwrapped_NoUsageCase(self, m, resp) ==
    IF self.return_metadata THEN json(resp)
    ELSE getitem(getitem(getitem(json(resp), "result"), "random"), "data")

\* A variant that returns the result member in verbose mode.
Unwrapped_VerboseResult(self, m, resp) ==
    IF self.return_metadata THEN getitem(json(resp), "result")
    ELSE IF m = "getUsage" THEN getitem(json(resp), "result")
    ELSE getitem(getitem(getitem(json(resp), "result"), "random"), "data")

\* What send_request returns once the POST has returned.
Unwrapped(self, m, resp) ==
    IF self.return_metadata THEN json(resp)
    ELSE IF m = "getUsage" THEN getitem(json(resp), "result")
    ELSE getitem(getitem(getitem(json(resp), "result"), "random"), "data")

\* A caller enters send_request(method, params).
Enter(t, fn, args, m, p) ==
    /\ pc[t] = "idle"
    /\ ncalls < MaxCalls
    /\ call' = [call EXCEPT ![t] = [fn |-> fn, args |-> args]]
    /\ method' = [method EXCEPT ![t] = m]
    /\ params' = [params EXCEPT ![t] = p]
    /\ pc' = [pc EXCEPT ![t] = "send_request"]
    /\ ncalls' = ncalls + 1
    /\ UNCHANGED <<ctor, cfg, payload, sent, posts, answer, response, ret>>

\* A variant that keeps the envelope on the client object, shared by all callers.
BuildPayload_Shared(t) ==
    /\ pc[t] = "send_request"
    /\ payload' = [u \in Threads |-> Payload(cfg, method[t], params[t])]
    /\ pc' = [pc EXCEPT ![t] = "post"]
    /\ UNCHANGED <<ctor, cfg, call, method, params, sent, posts, answer,
                   response, ret, ncalls>>

\* A variant that advances self.id after each envelope.
BuildPayload_AdvancesId(t) ==
    /\ pc[t] = "send_request"
    /\ payload' = [payload EXCEPT ![t] = Payload(cfg, method[t], params[t])]
    /\ cfg' = [cfg EXCEPT !.id = @ + 1]
    /\ pc' = [pc EXCEPT ![t] = "post"]
    /\ UNCHANGED <<ctor, call, method, params, sent, posts, answer,
                   response, ret, ncalls>>

\* payload = {...}
BuildPayload(t) ==
    /\ pc[t] = "send_request"
    /\ payload' = [payload EXCEPT ![t] = Payload(cfg, method[t], params[t])]
    /\ pc' = [pc EXCEPT ![t] = "post"]
    /\ UNCHANGED <<ctor, cfg, call, method, params, sent, posts, answer,
                   response, ret, ncalls>>

\* requests.post(self.end_point, json=payload, timeout=self.timeout) is called.
Post(t) ==
    /\ pc[t] = "post"
    /\ sent' = [sent EXCEPT ![t] = [made |-> TRUE, url |-> cfg.end_point,
                                    json |-> payload[t], timeout |-> cfg.timeout]]
    /\ posts' = [posts EXCEPT ![t] = @ + 1]
    /\ pc' = [pc EXCEPT ![t] = "inflight"]
    /\ UNCHANGED <<ctor, cfg, call, method, params, payload, answer,
                   response, ret, ncalls>>

\* A variant that posts again after a timeout.
PostRaises_Retry(t, e) ==
    /\ pc[t] = "inflight"
    /\ answer' = [answer EXCEPT ![t] = [kind |-> "raised", exc |-> e, body |-> NotJson]]
    /\ IF IsInstance(e, "Timeout")
       THEN /\ pc' = [pc EXCEPT ![t] = "post"]
            /\ ret' = ret
       ELSE /\ pc' = [pc EXCEPT ![t] = "done"]
            /\ ret' = [ret EXCEPT ![t] = Handler(e)]
    /\ UNCHANGED <<ctor, cfg, call, method, params, payload, sent, posts,
                   response, ncalls>>

\* requests.post raises e; the matching except clause ends the call.
PostRaises(t, e) ==
    /\ pc[t] = "inflight"
    /\ answer' = [answer EXCEPT ![t] = [kind |-> "raised", exc |-> e, body |-> NotJson]]
    /\ ret' = [ret EXCEPT ![t] = Handler(e)]
    /\ pc' = [pc EXCEPT ![t] = "done"]
    /\ UNCHANGED <<ctor, cfg, call, method, params, payload, sent, posts,
                   response, ncalls>>

\* requests.post returns an HTTP response, bound to `response`.
PostReturns(t, body) ==
    /\ pc[t] = "inflight"
    /\ answer' = [answer EXCEPT ![t] = [kind |-> "response", exc |-> "", body |-> body]]
    /\ response' = [response EXCEPT ![t] = [bound |-> TRUE, body |-> body]]
    /\ pc' = [pc EXCEPT ![t] = "unwrap"]
    /\ UNCHANGED <<ctor, cfg, call, method, params, payload, sent, posts,
                   ret, ncalls>>

\* The if/else after the try statement: a value is returned or an exception
\* leaves send_request.
Unwrap(t) ==
    /\ pc[t] = "unwrap"
    /\ ret' = [ret EXCEPT ![t] = Unwrapped(cfg, method[t], response[t].body)]
    /\ pc' = [pc EXCEPT ![t] = "done"]
    /\ UNCHANGED <<ctor, cfg, call, method, params, payload, sent, posts,
                   answer, response, ncalls>>

\* The call is over and its frame is gone.
Return(t) ==
    /\ pc[t] = "done"
    /\ pc' = [pc EXCEPT ![t] = "idle"]
    /\ call' = [call EXCEPT ![t] = NoCall]
    /\ method' = [method EXCEPT ![t] = ""]
    /\ params' = [params EXCEPT ![t] = {}]
    /\ payload' = [payload EXCEPT ![t] = NoPayload]
    /\ sent' = [sent EXCEPT ![t] = NoSent]
    /\ posts' = [posts EXCEPT ![t] = 0]
    /\ answer' = [answer EXCEPT ![t] = NoAnswer]
    /\ response' = [response EXCEPT ![t] = NoResponse]
    /\ ret' = [ret EXCEPT ![t] = NoRet]
    /\ UNCHANGED <<ctor, cfg, ncalls>>

---------------------------------------------------------------------------
(* The wrappers *)

\* The keyword arguments the caller wrote out.
Arg(name, opt) == {<<name, v>> : v \in opt}

\* A variant that sends the bounds the other way round.
generate_integers_Swapped(t, n, minimum, maximum, replacement, base) ==
    LET parameters == {<<"apiKey", cfg.api_key>>, <<"n", n>>,
                       <<"min", maximum>>, <<"max", minimum>>,
                       <<"replacement", Default(replacement, "True")>>,
                       <<"base", Default(base, "10")>>}
    IN  Enter(t, "generate_integers",
              {<<"n", n>>, <<"minimum", minimum>>, <<"maximum", maximum>>}
                  \cup Arg("replacement", replacement) \cup Arg("base", base),
              "generateIntegers", parameters)

generate_integers(t, n, minimum, maximum, replacement, base) ==
    LET parameters == {<<"apiKey", cfg.api_key>>, <<"n", n>>,
                       <<"min", minimum>>, <<"max", maximum>>,
                       <<"replacement", Default(replacement, "True")>>,
                       <<"base", Default(base, "10")>>}
    IN  Enter(t, "generate_integers",
              {<<"n", n>>, <<"minimum", minimum>>, <<"maximum", maximum>>}
                  \cup Arg("replacement", replacement) \cup Arg("base", base),
              "generateIntegers", parameters)

generate_integer_sequence(t, n, length, minimum, maximum, replacement, base) ==
    LET parameters == {<<"apiKey", cfg.api_key>>, <<"n", n>>, <<"length", length>>,
                       <<"min", minimum>>, <<"max", maximum>>,
                       <<"replacement", replacement>>, <<"base", base>>}
    IN  Enter(t, "generate_integer_sequence",
              {<<"n", n>>, <<"length", length>>, <<"minimum", minimum>>,
               <<"maximum", maximum>>, <<"replacement", replacement>>,
               <<"base", base>>},
              "generateIntegerSequences", parameters)

generate_decimal_fractions(t, n, decimal_places, replacement) ==
    LET parameters == {<<"apiKey", cfg.api_key>>, <<"n", n>>,
                       <<"decimalPlaces", decimal_places>>,
                       <<"replacement", Default(replacement, "True")>>}
    IN  Enter(t, "generate_decimal_fractions",
              {<<"n", n>>, <<"decimal_places", decimal_places>>}
                  \cup Arg("replacement", replacement),
              "generateDecimalFractions", parameters)

generate_gaussian(t, n, mean, std, significant_digits) ==
    LET parameters == {<<"apiKey", cfg.api_key>>, <<"n", n>>, <<"mean", mean>>,
                       <<"stdDev", std>>,
                       <<"significantDigits", significant_digits>>}
    IN  Enter(t, "generate_gaussian",
              {<<"n", n>>, <<"mean", mean>>, <<"std", std>>,
               <<"significant_digits", significant_digits>>},
              "generateGaussians", parameters)

generate_strings(t, n, length, characters, replacement) ==
    LET parameters == {<<"apiKey", cfg.api_key>>, <<"n", n>>, <<"length", length>>,
                       <<"characters", characters>>,
                       <<"replacement", Default(replacement, "True")>>}
    IN  Enter(t, "generate_strings",
              {<<"n", n>>, <<"length", length>>, <<"characters", characters>>}
                  \cup Arg("replacement", replacement),
              "generateStrings", parameters)

generate_uuids(t, n) ==
    LET parameters == {<<"apiKey", cfg.api_key>>, <<"n", n>>}
    IN  Enter(t, "generate_uuids", {<<"n", n>>}, "generateUUIDs", parameters)

generate_blobs(t, n, size, fmt) ==
    LET parameters == {<<"apiKey", cfg.api_key>>, <<"n", n>>, <<"size", size>>,
                       <<"format", Default(fmt, "base64")>>}
    IN  Enter(t, "generate_blobs",
              {<<"n", n>>, <<"size", size>>} \cup Arg("fmt", fmt),
              "generateBlobs", parameters)

get_usage(t) ==
    LET parameters == {<<"apiKey", cfg.api_key>>}
    IN  Enter(t, "get_usage", {}, "getUsage", parameters)

\* send_request called by the user, as src/randorgpy/main.py's class is used.
send_request(t, m, p) ==
    Enter(t, "send_request", {<<"method", m>>} \cup p, m, p)

---------------------------------------------------------------------------
(* Inputs *)

\* Constructor calls: all defaults, verbose mode, everything given.
CtorArgs ==
    {[api_key |-> "KEY", end_point |-> Omitted, timeout |-> Omitted,
      return_metadata |-> Omitted, id |-> Omitted],
     [api_key |-> "KEY", end_point |-> Omitted, timeout |-> Omitted,
      return_metadata |-> Given(TRUE), id |-> Omitted],
     [api_key |-> "", end_point |-> Given("http://localhost:8080/invoke"),
      timeout |-> Given(3), return_metadata |-> Given(FALSE), id |-> Given(7)]}

\* (n, minimum, maximum): the spec's example and an out-of-range request.
IntegerArgs == {<<"5", "1", "10">>, <<"0", "10", "1">>}
\* (replacement, base) of generate_integers: both omitted, both given.
IntegerOptions == {<<Omitted, Omitted>>, <<Given("False"), Given("7")>>}
OptBool == {Omitted, Given("False")}
OptFormat == {Omitted, Given("hex")}

Init ==
    /\ ctor \in CtorArgs
    /\ cfg = RandomOrgAPI(ctor.api_key, ctor.end_point, ctor.timeout,
                          ctor.return_metadata, ctor.id)
    /\ pc = [t \in Threads |-> "idle"]
    /\ call = [t \in Threads |-> NoCall]
    /\ method = [t \in Threads |-> ""]
    /\ params = [t \in Threads |-> {}]
    /\ payload = [t \in Threads |-> NoPayload]
    /\ sent = [t \in Threads |-> NoSent]
    /\ posts = [t \in Threads |-> 0]
    /\ answer = [t \in Threads |-> NoAnswer]
    /\ response = [t \in Threads |-> NoResponse]
    /\ ret = [t \in Threads |-> NoRet]
    /\ ncalls = 0

Next ==
    \E t \in Threads :
        \/ \E a \in IntegerArgs, o \in IntegerOptions :
               generate_integers(t, a[1], a[2], a[3], o[1], o[2])
        \/ generate_integer_sequence(t, "2", "[3, 4]", "1", "[6, 9]", "True", "10")
        \/ \E r \in OptBool : generate_decimal_fractions(t, "5", "2", r)
        \/ generate_gaussian(t, "5", "0.0", "1.0", "4")
        \/ \E r \in OptBool : generate_strings(t, "5", "8", "abc", r)
        \/ generate_uuids(t, "-1")
        \/ \E f \in OptFormat : generate_blobs(t, "1", "16", f)
        \/ get_usage(t)
        \/ send_request(t, "getResult", {<<"apiKey", cfg.api_key>>, <<"serialNumber", "1">>})
        \/ BuildPayload(t)
        \/ Post(t)
        \/ \E e \in PostExceptions : PostRaises(t, e)
        \/ \E body \in Bodies : PostReturns(t, body)
        \/ Unwrap(t)
        \/ Return(t)

Spec == Init /\ [][Next]_vars

---------------------------------------------------------------------------
(* Properties *)

IsPrefix(p, q) == Len(p) <= Len(q) /\ SubSeq(q, 1, Len(p)) = p

\* The document has a value at the path.
HasPath(doc, path) == \E e \in doc : IsPrefix(path, e[1])

\* The value at the path, read off the document in one step.
At(doc, path) ==
    {<<SubSeq(e[1], Len(path) + 1, Len(e[1])), e[2]>> :
        e \in {x \in doc : IsPrefix(path, x[1])}}

\* Where the payload lies in a well-formed reply to method m.
PayloadPath(m) == IF m = "getUsage" THEN <<"result">> ELSE <<"result", "random", "data">>

Decoded(t) == answer[t].kind = "response" /\ answer[t].body.decodes

\* C1: in compact mode, a call whose POST returned a decodable body holding
\* the method's payload path (result for getUsage, result.random.data for
\* every other method) returns exactly the value at that path of its reply.
C1_CompactReturnsPayload ==
    \A t \in Threads :
        (/\ pc[t] = "done"
         /\ ~cfg.return_metadata
         /\ Decoded(t)
         /\ HasPath(answer[t].body.doc, PayloadPath(method[t])))
        => ret[t] = Returned(At(answer[t].body.doc, PayloadPath(method[t])))

\* A generation call has returned the list [3, 7] of its reply while a getUsage
\* call has returned the result object of a reply with no "random" key.
C1_Witness ==
    \E t, u \in Threads :
        /\ ~cfg.return_metadata
        /\ pc[t] = "done" /\ method[t] = "generateIntegers"
        /\ answer[t].body = GoodRandom
        /\ ret[t] = Returned(JArr(<<3, 7>>))
        /\ pc[u] = "done" /\ method[u] = "getUsage"
        /\ answer[u].body = GoodUsage
        /\ ret[u] = Returned(JField("requestsLeft", JNum(99)))

\* C2: in verbose mode, a call whose POST returned a decodable body returns
\* the whole decoded envelope, whatever the method and whatever keys the
\* envelope has.
C2_VerboseReturnsEnvelope ==
    \A t \in Threads :
        (pc[t] = "done" /\ cfg.return_metadata /\ Decoded(t))
        => ret[t] = Returned(answer[t].body.doc)

\* Verbose calls have returned a remote error envelope and, for getUsage, an
\* envelope without "result".
C2_Witness ==
    \E t, u \in Threads :
        /\ cfg.return_metadata
        /\ pc[t] = "done" /\ method[t] # "getUsage"
        /\ answer[t].body = RemoteError
        /\ ret[t] = Returned(RemoteError.doc)
        /\ pc[u] = "done" /\ method[u] = "getUsage"
        /\ answer[u].body = EmptyEnvelope
        /\ ret[u] = Returned(JEmptyObj)

C4_MalformedReplyIsAnErrorResult ==
    \A t \in Threads :
        (/\ pc[t] = "done"
         /\ ~cfg.return_metadata
         /\ method[t] # "getUsage"
         /\ Decoded(t)
         /\ ~HasPath(answer[t].body.doc, <<"result", "random", "data">>))
        => ret[t].kind = "return" /\ ret[t] # Returned(PyNone)

\* C5: every finished call has returned a value (the payload, the envelope or
\* the failure signal); none has ended in an exception.
C5_NoCallEndsInAnException ==
    \A t \in Threads : pc[t] = "done" => ret[t].kind = "return"

\* C6: every envelope handed to the POST has jsonrpc "2.0" and the id given
\* at construction, 42 when none was given.
C6_EnvelopeIdIsConfigured ==
    \A t \in Threads :
        sent[t].made
        => /\ sent[t].json.jsonrpc = "2.0"
           /\ sent[t].json.id = (IF ctor.id = {} THEN 42 ELSE CHOOSE i \in ctor.id : TRUE)

\* The second call on a client constructed without an id has posted id 42
\* while the other caller's call has already ended.
C6_Witness ==
    \E t, u \in Threads :
        /\ ncalls >= 2
        /\ ctor.id = {}
        /\ pc[u] = "done"
        /\ pc[t] = "inflight" /\ sent[t].made /\ sent[t].json.id = 42

Wrappers == {"generate_integers", "generate_integer_sequence",
             "generate_decimal_fractions", "generate_gaussian",
             "generate_strings", "generate_uuids", "generate_blobs", "get_usage"}

\* The wire protocol table: method name and fields beside apiKey.
WireMethod(fn) ==
    CASE fn = "generate_integers"          -> "generateIntegers"
      [] fn = "generate_integer_sequence"  -> "generateIntegerSequences"
      [] fn = "generate_decimal_fractions" -> "generateDecimalFractions"
      [] fn = "generate_gaussian"          -> "generateGaussians"
      [] fn = "generate_strings"           -> "generateStrings"
      [] fn = "generate_uuids"             -> "generateUUIDs"
      [] fn = "generate_blobs"             -> "generateBlobs"
      [] fn = "get_usage"                  -> "getUsage"

WireFields(fn) ==
    CASE fn = "generate_integers"          -> {"n", "min", "max", "replacement", "base"}
      [] fn = "generate_integer_sequence"  -> {"n", "length", "min", "max", "replacement", "base"}
      [] fn = "generate_decimal_fractions" -> {"n", "decimalPlaces", "replacement"}
      [] fn = "generate_gaussian"          -> {"n", "mean", "stdDev", "significantDigits"}
      [] fn = "generate_strings"           -> {"n", "length", "characters", "replacement"}
      [] fn = "generate_uuids"             -> {"n"}
      [] fn = "generate_blobs"             -> {"n", "size", "format"}
      [] fn = "get_usage"                  -> {}

\* The wire field an argument is sent as.
WireField(arg) ==
    CASE arg = "minimum"            -> "min"
      [] arg = "maximum"            -> "max"
      [] arg = "decimal_places"     -> "decimalPlaces"
      [] arg = "std"                -> "stdDev"
      [] arg = "significant_digits" -> "significantDigits"
      [] arg = "fmt"                -> "format"
      [] OTHER                      -> arg

WireDefaults == {<<"replacement", "True">>, <<"base", "10">>, <<"format", "base64">>}

\* The params the wire protocol expects for a wrapper call.
ExpectedParams(c) ==
    LET given == {<<WireField(a[1]), a[2]>> : a \in c.args}
        names == {g[1] : g \in given}
    IN  {<<"apiKey", ctor.api_key>>}
        \cup given
        \cup {d \in WireDefaults : d[1] \in WireFields(c.fn) /\ d[1] \notin names}

C8_ConcurrentCallsAreIndependent ==
    \A t \in Threads :
        /\ sent[t].made => /\ sent[t].json.method = method[t]
                           /\ sent[t].json.params = params[t]
        /\ response[t].bound => answer[t].kind = "response"
                                /\ response[t].body = answer[t].body
        /\ pc[t] = "done"
           => ret[t] = IF answer[t].kind = "raised" THEN Returned(PyNone)
                       ELSE Unwrapped(cfg, method[t], answer[t].body)

\* Two calls of different methods were in the client together and have ended
\* differently, one on a reply and one on a transport failure.
C8_Witness ==
    \E t, u \in Threads :
        /\ t # u
        /\ pc[t] = "done" /\ pc[u] = "done"
        /\ method[t] = "generateUUIDs" /\ method[u] = "getUsage"
        /\ sent[t].json.method = "generateUUIDs" /\ sent[u].json.method = "getUsage"
        /\ answer[t].body = GoodRandom /\ answer[u].kind = "raised"
        /\ ret[t] # ret[u]

\* C9: a call makes one POST, to the endpoint and with the timeout given at
\* construction: never a second one, and none has ended or got an answer
\* without one.
C9_ExactlyOnePost ==
    \A t \in Threads :
        /\ posts[t] <= 1
        /\ pc[t] \in {"inflight", "unwrap", "done"}
           => /\ posts[t] = 1
              /\ sent[t].url = (IF ctor.end_point = {}
                                THEN "https://api.random.org/json-rpc/4/invoke"
                                ELSE CHOOSE x \in ctor.end_point : TRUE)
              /\ sent[t].timeout = (IF ctor.timeout = {} THEN 10
                                    ELSE CHOOSE x \in ctor.timeout : TRUE)
        /\ pc[t] \in {"idle", "send_request", "post"} => posts[t] = 0

\* A call with n = 0 and minimum > maximum has ended after a timeout, and a
\* call with n = -1 after a reply without "result", each with one POST.
C9_Witness ==
    \E t, u \in Threads :
        /\ pc[t] = "done"
        /\ {<<"n", "0">>, <<"minimum", "10">>, <<"maximum", "1">>} \subseteq call[t].args
        /\ answer[t].exc = "ReadTimeout"
        /\ posts[t] = 1
        /\ pc[u] = "done"
        /\ <<"n", "-1">> \in call[u].args
        /\ answer[u].body = RemoteError
        /\ posts[u] = 1

\* C10: the client's attributes are those given at construction (or the
\* defaults), in every state.
C10_ConfigurationIsFixed ==
    cfg = [api_key         |-> ctor.api_key,
           end_point       |-> IF ctor.end_point = {}
                               THEN "https://api.random.org/json-rpc/4/invoke"
                               ELSE CHOOSE x \in ctor.end_point : TRUE,
           timeout         |-> IF ctor.timeout = {} THEN 10
                               ELSE CHOOSE x \in ctor.timeout : TRUE,
           return_metadata |-> IF ctor.return_metadata = {} THEN FALSE
                               ELSE CHOOSE x \in ctor.return_metadata : TRUE,
           id              |-> IF ctor.id = {} THEN 42 ELSE CHOOSE x \in ctor.id : TRUE]

\* Both calls of the run have ended, one by returning None after a failed
\* POST and one in an exception.
C10_Witness ==
    \E t, u \in Threads :
        /\ ncalls >= 2
        /\ pc[t] = "done" /\ answer[t].kind = "raised" /\ ret[t] = Returned(PyNone)
        /\ pc[u] = "done" /\ ret[u].kind = "raise"

=============================================================================
